---- MODULE Spec2Model ----
(***************************************************************************)
(* Task management API: Express routes, Joi validation middleware, the    *)
(* task controller over a Mongoose model, and the error middleware.        *)
(*                                                                         *)
(* A request is handled in two steps: the synchronous part (body parser,   *)
(* validation middleware, the handler up to its await on the store) and    *)
(* the completion (the store operation and the response built from its     *)
(* result).  Other requests and the clock may move between the two.        *)
(***************************************************************************)
EXTENDS Integers, Sequences, FiniteSets, TLC

\* ---------------------------------------------------------------- bounds
MaxIds == 2        \* identifiers the store issues in Spec
MaxStored == 1     \* documents the collection holds at once in Spec
MaxTime == 1       \* last clock value
MaxBulk == 11      \* documents created in SpecBulk
MaxListed == 3     \* documents created in SpecList
MaxPair == 2       \* documents created in SpecPair

\* ------------------------------------------------------- program constants
TitleMin == 3
TitleMax == 100
DescMax == 500
DefaultPage == 1
DefaultLimit == 10

Clients == {"c1", "c2"}

\* ------------------------------------------------------------------ values
\* A JSON string is whitespace^pre . text . whitespace^post, where text has
\* n characters and neither starts nor ends with whitespace.
Str(pre, txt, n, post) == [ty |-> "str", pre |-> pre, txt |-> txt, n |-> n, post |-> post]
Word(txt, n) == Str(0, txt, n, 0)
StrLen(s) == s.pre + s.n + s.post
\* variant: only the leading whitespace is removed
TrimStart(s) == [s EXCEPT !.pre = 0]

\* String.prototype.trim as Joi's and Mongoose's trim apply it
Trim(s) == [s EXCEPT !.pre = 0, !.post = 0]
\* a JSON string in ISO 8601 form denoting the instant t; canon: it is in the
\* form Date.prototype.toISOString writes
Iso(t, canon) == [ty |-> "iso", t |-> t, canon |-> canon]
\* a JavaScript Date
DateOf(t) == [ty |-> "Date", t |-> t]
Bool(b) == [ty |-> "bool", b |-> b]
Num == [ty |-> "num"]

Keys == <<"title", "description", "category", "priority", "deadline", "completed">>
KeySet == {Keys[i] : i \in 1..Len(Keys)}

Categories == {"Work", "Personal", "Study", "Health", "Other"}
Priorities == {"Low", "Medium", "High"}

\* ----------------------------------------------------------------- schemas
createTaskSchema ==
  [keys |->
    [title |-> [type |-> "string", trim |-> TRUE, min |-> TitleMin, max |-> TitleMax,
                required |-> TRUE,
                messages |-> [base |-> "Title must be a string",
                              empty |-> "Title is required",
                              min |-> "Title must be at least 3 characters long",
                              max |-> "Title cannot be more than 100 characters",
                              required |-> "Title is required"]],
     description |-> [type |-> "string", trim |-> TRUE, max |-> DescMax, allowEmpty |-> TRUE,
                messages |-> [base |-> "Description must be a string",
                              max |-> "Description cannot be more than 500 characters"]],
     category |-> [type |-> "string", trim |-> TRUE, valid |-> Categories,
                required |-> TRUE,
                messages |-> [base |-> "Category must be a string",
                              empty |-> "Category is required",
                              required |-> "Category is required",
                              only |-> "Category must be one of: Work, Personal, Study, Health, Other"]],
     priority |-> [type |-> "string", trim |-> TRUE, valid |-> Priorities,
                required |-> TRUE,
                messages |-> [base |-> "Priority must be a string",
                              empty |-> "Priority is required",
                              required |-> "Priority is required",
                              only |-> "Priority must be one of: Low, Medium, High"]],
     deadline |-> [type |-> "date", iso |-> TRUE, minNow |-> TRUE,
                required |-> TRUE,
                messages |-> [base |-> "Deadline must be a valid date",
                              format |-> "Deadline must be in ISO format (YYYY-MM-DD)",
                              min |-> "Deadline must be in the future",
                              required |-> "Deadline is required"]],
     completed |-> [type |-> "boolean", default |-> Bool(FALSE),
                messages |-> [base |-> "Completed must be a boolean value"]]]]

\* variant: the update rule for deadline without min('now')
updateDeadlineRuleAnyTime ==
  [type |-> "date", iso |-> TRUE,
   messages |-> [base |-> "Deadline must be a valid date",
                 format |-> "Deadline must be in ISO format (YYYY-MM-DD)",
                 min |-> "Deadline must be in the future"]]

\* updateTaskSchema's rule for deadline
updateDeadlineRule ==
  [type |-> "date", iso |-> TRUE, minNow |-> TRUE,
   messages |-> [base |-> "Deadline must be a valid date",
                 format |-> "Deadline must be in ISO format (YYYY-MM-DD)",
                 min |-> "Deadline must be in the future"]]

updateTaskSchema ==
  [keys |->
    [title |-> [type |-> "string", trim |-> TRUE, min |-> TitleMin, max |-> TitleMax,
                messages |-> [base |-> "Title must be a string",
                              empty |-> "Title cannot be empty",
                              min |-> "Title must be at least 3 characters long",
                              max |-> "Title cannot be more than 100 characters"]],
     description |-> [type |-> "string", trim |-> TRUE, max |-> DescMax, allowEmpty |-> TRUE,
                messages |-> [base |-> "Description must be a string",
                              max |-> "Description cannot be more than 500 characters"]],
     category |-> [type |-> "string", trim |-> TRUE, valid |-> Categories,
                messages |-> [base |-> "Category must be a string",
                              only |-> "Category must be one of: Work, Personal, Study, Health, Other"]],
     priority |-> [type |-> "string", trim |-> TRUE, valid |-> Priorities,
                messages |-> [base |-> "Priority must be a string",
                              only |-> "Priority must be one of: Low, Medium, High"]],
     deadline |-> updateDeadlineRule,
     completed |-> [type |-> "boolean",
                messages |-> [base |-> "Completed must be a boolean value"]]],
   min |-> 1,
   messages |-> [min |-> "At least one field must be provided for update"]]

\* -------------------------------------------------------------- validation
Has(r, k) == k \in DOMAIN r

\* the lengths of the string literals of the program
LitLen == [Work |-> 4, Personal |-> 8, Study |-> 5, Health |-> 6, Other |-> 5,
           Low |-> 3, Medium |-> 6, High |-> 4, true |-> 4, false |-> 5]
Lit(txt) == Word(txt, LitLen[txt])

Ok(v) == [code |-> "ok", val |-> v]
Fail(c, v) == [code |-> c, val |-> v]

\* variant: a string rule without min
CheckStringNoMin(r, v) ==
  IF v.ty # "str" THEN Fail("base", v)
  ELSE LET s == IF Has(r, "trim") THEN Trim(v) ELSE v IN
       IF StrLen(s) = 0
         THEN (IF Has(r, "allowEmpty") THEN Ok(s) ELSE Fail("empty", v))
       ELSE IF Has(r, "valid") /\ ~(\E w \in r.valid : s = Lit(w)) THEN Fail("only", v)
       ELSE IF Has(r, "max") /\ StrLen(s) > r.max THEN Fail("max", v)
       ELSE Ok(s)

\* Joi.string(): coerce (trim), allowed values, then the rules in order
CheckString(r, v) ==
  IF v.ty # "str" THEN Fail("base", v)
  ELSE LET s == IF Has(r, "trim") THEN Trim(v) ELSE v IN
       IF StrLen(s) = 0
         THEN (IF Has(r, "allowEmpty") THEN Ok(s) ELSE Fail("empty", v))
       ELSE IF Has(r, "valid") /\ ~(\E w \in r.valid : s = Lit(w)) THEN Fail("only", v)
       ELSE IF Has(r, "min") /\ StrLen(s) < r.min THEN Fail("min", v)
       ELSE IF Has(r, "max") /\ StrLen(s) > r.max THEN Fail("max", v)
       ELSE Ok(s)

\* Joi.date().iso().min('now'): the rule min compares with >=, t is Date.now()
DateMinNow(value, t) == value >= t

\* Joi.date().iso(): a string in ISO form converts to a Date
CheckDate(r, v, t) ==
  IF v.ty # "iso" THEN Fail("format", v)
  ELSE IF Has(r, "minNow") /\ ~DateMinNow(v.t, t) THEN Fail("min", v)
  ELSE Ok(DateOf(v.t))

\* Joi.boolean(): the strings "true" and "false" convert
CheckBoolean(r, v) ==
  IF v.ty = "bool" THEN Ok(v)
  ELSE IF v.ty = "str" /\ v \in {Lit("true"), Lit("false")} THEN Ok(Bool(v.txt = "true"))
  ELSE Fail("base", v)

CheckKey(r, v, t) ==
  CASE r.type = "string" -> CheckString(r, v)
    [] r.type = "date" -> CheckDate(r, v, t)
    [] r.type = "boolean" -> CheckBoolean(r, v)

\* Joi's own texts, for the codes a schema gives no message for
DefaultMessage(code, k) == <<k, " is not allowed to be empty">>

Message(r, code, k) ==
  IF Has(r.messages, code) THEN <<r.messages[code]>> ELSE DefaultMessage(code, k)

\* variant: abortEarly, only the first error is reported
ValidateAbortEarly(schema, body, t) ==
  LET known == DOMAIN body \cap KeySet
      res(k) == CheckKey(schema.keys[k], body[k], t)
      bad(k) == IF k \in known THEN res(k).code # "ok" ELSE Has(schema.keys[k], "required")
      entry(k) == [field |-> k,
                   message |-> IF k \in known THEN Message(schema.keys[k], res(k).code, k)
                               ELSE Message(schema.keys[k], "required", k)]
      keyErrors[i \in 0..Len(Keys)] ==
        IF i = 0 THEN <<>>
        ELSE IF keyErrors[i - 1] # <<>> THEN keyErrors[i - 1]
        ELSE IF bad(Keys[i]) THEN <<entry(Keys[i])>>
        ELSE <<>>
      objErrors == IF Has(schema, "min") /\ Cardinality(known) < schema.min
                     THEN <<[field |-> "", message |-> <<schema.messages.min>>]>>
                     ELSE <<>>
      filled == known \cup {k \in KeySet : Has(schema.keys[k], "default")}
  IN [errors |-> IF keyErrors[Len(Keys)] # <<>> THEN keyErrors[Len(Keys)] ELSE objErrors,
      value |-> [k \in filled |-> IF k \in known THEN res(k).val
                                  ELSE schema.keys[k].default]]

\* schema.validate(body, {abortEarly: false, stripUnknown: true}) at time t:
\* every key is checked, unknown keys are dropped, defaults are applied, and
\* the object rule min counts the keys that are left.
Validate(schema, body, t) ==
  LET known == DOMAIN body \cap KeySet
      res(k) == CheckKey(schema.keys[k], body[k], t)
      bad(k) == IF k \in known THEN res(k).code # "ok" ELSE Has(schema.keys[k], "required")
      entry(k) == [field |-> k,
                   message |-> IF k \in known THEN Message(schema.keys[k], res(k).code, k)
                               ELSE Message(schema.keys[k], "required", k)]
      keyErrors[i \in 0..Len(Keys)] ==
        IF i = 0 THEN <<>>
        ELSE IF bad(Keys[i]) THEN Append(keyErrors[i - 1], entry(Keys[i]))
        ELSE keyErrors[i - 1]
      objErrors == IF Has(schema, "min") /\ Cardinality(known) < schema.min
                     THEN <<[field |-> "", message |-> <<schema.messages.min>>]>>
                     ELSE <<>>
      filled == known \cup {k \in KeySet : Has(schema.keys[k], "default")}
  IN [errors |-> keyErrors[Len(Keys)] \o objErrors,
      value |-> [k \in filled |-> IF k \in known THEN res(k).val
                                  ELSE schema.keys[k].default]]

\* ------------------------------------------------------------ error taxonomy
\* `${statusCode}`.startsWith('4')
RECURSIVE FirstDigit(_)
FirstDigit(n) == IF n < 10 THEN n ELSE FirstDigit(n \div 10)

\* variant: every AppError is an "error"
AppErrorStatusError(statusCode) == "error"

AppErrorStatus(statusCode) == IF FirstDigit(statusCode) = 4 THEN "fail" ELSE "error"

AppError(message, statusCode) ==
  [name |-> "AppError", message |-> message, statusCode |-> statusCode,
   status |-> AppErrorStatus(statusCode), isOperational |-> TRUE]

RECURSIVE Join(_, _)
Join(parts, sep) ==
  IF Len(parts) = 0 THEN <<>>
  ELSE IF Len(parts) = 1 THEN <<parts[1]>>
  ELSE <<parts[1], sep>> \o Join(Tail(parts), sep)

\* variant: a cast failure reported as a missing resource
handleCastErrorNotFound(err) == AppError(<<"Invalid ", err.path, ": ", err.value>>, 404)

handleCastError(err) == AppError(<<"Invalid ", err.path, ": ", err.value>>, 400)

handleValidationError(err) ==
  AppError(<<"Invalid input data: ">> \o Join(err.errors, ". "), 400)

handleDuplicateFieldError(err) ==
  AppError(<<"Duplicate field value: ", err.value, ". Please use another value.">>, 400)

\* variant: always 500 with the generic message
handleErrorGeneric(err, env) ==
  [code |-> 500, status |-> "error", message |-> <<"Something went wrong">>,
   via |-> "handleError", stack |-> env = "development"]

\* variant: the stack is attached outside production
handleErrorWithStack(err, env) ==
  LET base == [code |-> IF Has(err, "statusCode") THEN err.statusCode ELSE 500,
               status |-> IF Has(err, "status") THEN err.status ELSE "error",
               message |-> IF Has(err, "message") THEN err.message
                           ELSE <<"Something went wrong">>,
               via |-> "handleError",
               stack |-> env # "production"]
  IN IF Has(err, "errors") THEN base @@ [errors |-> err.errors] ELSE base

\* handleError(err, res): the generic response
handleError(err, env) ==
  LET base == [code |-> IF Has(err, "statusCode") THEN err.statusCode ELSE 500,
               status |-> IF Has(err, "status") THEN err.status ELSE "error",
               message |-> IF Has(err, "message") THEN err.message
                           ELSE <<"Something went wrong">>,
               via |-> "handleError",
               stack |-> env = "development"]
  IN IF Has(err, "errors") THEN base @@ [errors |-> err.errors] ELSE base

\* variant: no branch for a body that is not JSON
errorHandlerNoJson(err, env) ==
  LET e1 == IF err.name = "CastError" THEN handleCastError(err) ELSE err
      e2 == IF err.name = "ValidationError" THEN handleValidationError(err) ELSE e1
      e3 == IF Has(err, "code") /\ err.code = 11000 THEN handleDuplicateFieldError(err) ELSE e2
  IN IF Has(err, "isOperational") /\ err.isOperational
       THEN [code |-> err.statusCode, status |-> err.status, message |-> err.message,
             via |-> "operational", stack |-> FALSE]
     ELSE handleError(e3, env)

\* errorHandler(err, req, res, next)
errorHandler(err, env) ==
  LET e1 == IF err.name = "CastError" THEN handleCastError(err) ELSE err
      e2 == IF err.name = "ValidationError" THEN handleValidationError(err) ELSE e1
      e3 == IF Has(err, "code") /\ err.code = 11000 THEN handleDuplicateFieldError(err) ELSE e2
  IN IF err.name = "SyntaxError" /\ Has(err, "status") /\ err.status = 400 /\ Has(err, "body")
       THEN [code |-> 400, status |-> "error",
             message |-> <<"Invalid JSON: ">> \o err.message,
             via |-> "invalidJson", stack |-> FALSE]
     ELSE IF Has(err, "isOperational") /\ err.isOperational
       THEN [code |-> err.statusCode, status |-> err.status, message |-> err.message,
             via |-> "operational", stack |-> FALSE]
     ELSE handleError(e3, env)

\* variant: the missing route raised as an AppError
notFoundOperational(url) == AppError(<<"Not Found - ", url>>, 404)

\* notFound(req, res, next): the error handed to errorHandler
notFound(url) == [name |-> "Error", message |-> <<"Not Found - ", url>>, statusCode |-> 404]

\* ------------------------------------------------------------------- store
\* A stored document: the business fields it has (description may be absent)
\* and the timestamps Mongoose maintains.  Dates are stored as Dates.
TrimmedPaths == {"title", "description", "category"}

\* new Task(body): the schema's paths are cast, trim: true paths are trimmed,
\* completed defaults to false
CastPaths(body) ==
  [k \in DOMAIN body \cap KeySet |->
     IF k \in TrimmedPaths /\ body[k].ty = "str" THEN Trim(body[k]) ELSE body[k]]

CastDoc(body) ==
  IF Has(body, "completed") THEN CastPaths(body)
  ELSE CastPaths(body) @@ [completed |-> Bool(FALSE)]

\* the deadline validator: this.isNew ? value > Date.now() : true
\* variant: the store accepts any deadline
DeadlineValidatorLax(isNew, value, t) == TRUE

\* deadline validate.validator: this.isNew ? value > Date.now() : true
DeadlineValidator(isNew, value, t) == IF isNew THEN value > t ELSE TRUE

Blank(doc, k) == ~Has(doc, k) \/ (doc[k].ty = "str" /\ StrLen(doc[k]) = 0)

\* the schema's validators on the paths of doc, in path order: the messages of
\* those that fail.  required applies to a new document only.
StoreValidate(doc, isNew, t) ==
  LET fails ==
        << isNew /\ Blank(doc, "title"),
           Has(doc, "title") /\ StrLen(doc.title) > TitleMax,
           Has(doc, "description") /\ StrLen(doc.description) > DescMax,
           isNew /\ Blank(doc, "category"),
           Has(doc, "category") /\ ~Blank(doc, "category")
             /\ ~(\E w \in Categories : doc.category = Lit(w)),
           isNew /\ Blank(doc, "priority"),
           Has(doc, "priority") /\ ~Blank(doc, "priority")
             /\ ~(\E w \in Priorities : doc.priority = Lit(w)),
           isNew /\ ~Has(doc, "deadline"),
           Has(doc, "deadline") /\ ~DeadlineValidator(isNew, doc.deadline.t, t) >>
      texts ==
        << "Task title is required",
           "Task title cannot be more than 100 characters",
           "Task description cannot be more than 500 characters",
           "Task category is required",
           "Category must be one of: Work, Personal, Study, Health, Other",
           "Task priority is required",
           "Priority must be one of: Low, Medium, High",
           "Task deadline is required",
           "Deadline must be a future date" >>
      collect[i \in 0..Len(texts)] ==
        IF i = 0 THEN <<>>
        ELSE IF fails[i] THEN Append(collect[i - 1], texts[i]) ELSE collect[i - 1]
  IN collect[Len(texts)]

\* variant: no timestamps
StampNone(doc, created, updated) == doc

\* timestamps: true
Stamp(doc, created, updated) ==
  doc @@ [createdAt |-> DateOf(created), updatedAt |-> DateOf(updated)]

\* res.json(task): Dates are written by toISOString
ToJSON(id, doc) ==
  [k \in DOMAIN doc |-> IF doc[k].ty = "Date" THEN Iso(doc[k].t, TRUE) ELSE doc[k]]
    @@ [_id |-> [ty |-> "oid", n |-> id]]

\* a path parameter: a 24-digit hexadecimal string naming the identifier n, or
\* another text
Oid(n) == [wf |-> TRUE, n |-> n]
NotOid(text) == [wf |-> FALSE, text |-> text]
\* variant: the cast failure raised as a plain Error
CastErrorPlain(path, value) == [name |-> "Error", message |-> <<"Cast failed">>]

CastError(path, value) == [name |-> "CastError", path |-> path, value |-> value]

\* ------------------------------------------------------------ list pipeline
excludedFields == {"page", "sort", "limit", "fields"}

\* const queryObj = { ...req.query }; excludedFields.forEach(delete)
QueryObj(query) == [k \in DOMAIN query \ excludedFields |-> query[k]]

\* Mongoose casts a filter value to the type of its path
CastFilterValue(k, v) ==
  IF k = "completed"
    THEN (IF v \in {Lit("true"), Lit("false")} THEN Ok(Bool(v.txt = "true"))
          ELSE Fail("cast", v))
  ELSE Ok(v)

FilterCastErrors(filter) ==
  {k \in DOMAIN filter : CastFilterValue(k, filter[k].v).code # "ok"}

\* variant: a filter entry that every document matches
MatchesEntryAny(doc, k, e) == TRUE

\* a filter entry is a scalar (exact match) or an operator object ($ne)
MatchesEntry(doc, k, e) ==
  LET want == CastFilterValue(k, e.v).val
  IN IF e.op = "eq" THEN Has(doc, k) /\ doc[k] = want
     ELSE ~Has(doc, k) \/ doc[k] # want

Matches(doc, filter) == \A k \in DOMAIN filter : MatchesEntry(doc, k, filter[k])

\* the order of the texts of the model under the store's string comparison
TextOrder == [Health |-> 1, High |-> 2, Low |-> 3, Medium |-> 4, Other |-> 5,
              Personal |-> 6, Report |-> 7, Second |-> 8, Study |-> 9, Work |-> 10]

\* -1, 0 or 1: the store's comparison of two values of one path; a missing
\* value sorts first
Compare(doc1, doc2, k) ==
  IF ~Has(doc1, k) \/ ~Has(doc2, k)
    THEN (IF Has(doc1, k) THEN 1 ELSE IF Has(doc2, k) THEN -1 ELSE 0)
  ELSE LET a == doc1[k]  b == doc2[k]
           ka == CASE a.ty = "Date" -> <<a.t, 0>>
                   [] a.ty = "bool" -> <<IF a.b THEN 1 ELSE 0, 0>>
                   [] OTHER -> <<IF a.n = 0 THEN 0 ELSE TextOrder[a.txt], a.n>>
           kb == CASE b.ty = "Date" -> <<b.t, 0>>
                   [] b.ty = "bool" -> <<IF b.b THEN 1 ELSE 0, 0>>
                   [] OTHER -> <<IF b.n = 0 THEN 0 ELSE TextOrder[b.txt], b.n>>
       IN IF ka[1] < kb[1] THEN -1 ELSE IF ka[1] > kb[1] THEN 1
          ELSE IF ka[2] < kb[2] THEN -1 ELSE IF ka[2] > kb[2] THEN 1 ELSE 0

\* variant: every listed path ascending
RECURSIVE BeforeAscending(_, _, _)
BeforeAscending(doc1, doc2, by) ==
  IF Len(by) = 0 THEN FALSE
  ELSE LET c == Compare(doc1, doc2, by[1].field)
       IN IF c # 0 THEN c < 0 ELSE BeforeAscending(doc1, doc2, Tail(by))

\* query.sort('a -b'): lexicographic over the listed paths
RECURSIVE Before(_, _, _)
Before(doc1, doc2, by) ==
  IF Len(by) = 0 THEN FALSE
  ELSE LET c == Compare(doc1, doc2, by[1].field)
           d == IF by[1].neg THEN -c ELSE c
       IN IF d # 0 THEN d < 0 ELSE Before(doc1, doc2, Tail(by))

\* the first k places of every sequence of the identifiers in S that the sort
\* allows: documents with equal sort keys come in an order the store does not
\* specify
RECURSIVE SortedOrders(_, _, _, _)
SortedOrders(S, docs, by, k) ==
  IF S = {} \/ k <= 0 THEN {<<>>}
  ELSE UNION {{<<m>> \o r : r \in SortedOrders(S \ {m}, docs, by, k - 1)} :
                m \in {a \in S : \A b \in S : ~Before(docs[b], docs[a], by)}}

\* parseInt(value, 10) || dflt
ParseIntOr(query, k, dflt) ==
  IF ~Has(query, k) THEN dflt
  ELSE IF ~query[k].num \/ query[k].n = 0 THEN dflt
  ELSE query[k].n

\* variant: no sort unless the query names one
SortOfGiven(query) == IF Has(query, "sort") THEN query.sort ELSE <<>>

SortOf(query) ==
  IF Has(query, "sort") /\ Len(query.sort) > 0 THEN query.sort
  ELSE <<[neg |-> FALSE, field |-> "deadline"]>>

PageOf(query) == ParseIntOr(query, "page", DefaultPage)
LimitOf(query) == ParseIntOr(query, "limit", DefaultLimit)
SkipOf(query) == (PageOf(query) - 1) * LimitOf(query)

\* cursor.limit(limit): a negative limit is taken by its size
Abs(limit) == IF limit < 0 THEN -limit ELSE limit

\* cursor.skip(skip).limit(limit)
Page(order, skip, limit) ==
  LET last == IF skip + Abs(limit) < Len(order) THEN skip + Abs(limit) ELSE Len(order)
  IN SubSeq(order, skip + 1, last)

\* query.select(fields): the listed paths and _id; by default everything
Project(json, query) ==
  IF Has(query, "fields") /\ Len(query.fields) > 0
    THEN [k \in DOMAIN json \cap ({query.fields[i] : i \in 1..Len(query.fields)} \cup {"_id"})
            |-> json[k]]
  ELSE json

\* the identifier sequences find(queryObj).sort().skip().limit() may return
ListResults(query, docs) ==
  LET filter == QueryObj(query)
      hits == {i \in DOMAIN docs : Matches(docs[i], filter)}
  IN {Page(o, SkipOf(query), LimitOf(query)) :
        o \in SortedOrders(hits, docs, SortOf(query), SkipOf(query) + Abs(LimitOf(query)))}

\* ------------------------------------------------------------------- state
VARIABLES
  tasks,     \* the collection: identifier -> stored document
  nextId,    \* the next identifier the store generates
  now,       \* Date.now()
  nodeEnv,   \* process.env.NODE_ENV
  phase,     \* per client: "idle", "await" (store operation pending), "done"
  req,       \* per client: the request in flight (req.body is the sanitized body)
  resp,      \* per client: the response sent
  origin,    \* history: identifier -> the body that created it, until updated
  deleted,   \* history: the identifiers a DELETE was answered 204 for
  prevList   \* history: the paged list exchange just before, if nothing came between

vars == <<tasks, nextId, now, nodeEnv, phase, req, resp, origin, deleted, prevList>>

NoReq == [method |-> "none"]
NoResp == [code |-> 0]
NoList == [none |-> TRUE]

Init ==
  /\ tasks = <<>>
  /\ nextId = 1
  /\ now = 0
  /\ nodeEnv \in {"development", "production", "test"}
  /\ phase = [c \in Clients |-> "idle"]
  /\ req = [c \in Clients |-> NoReq]
  /\ resp = [c \in Clients |-> NoResp]
  /\ origin = <<>>
  /\ deleted = {}
  /\ prevList = NoList

Idle(c) == phase[c] \in {"idle", "done"}

\* variant: the response is sent and the handler goes on
AnswerUnfinished(c, r) ==
  /\ resp' = [resp EXCEPT ![c] = r]
  /\ phase' = phase

\* res.status(...).json(...): the one response of the request
Answer(c, r) ==
  /\ resp' = [resp EXCEPT ![c] = r]
  /\ phase' = [phase EXCEPT ![c] = "done"]

Await(c) ==
  /\ resp' = [resp EXCEPT ![c] = NoResp]
  /\ phase' = [phase EXCEPT ![c] = "await"]

Success(code, fields) ==
  [code |-> code, status |-> "success", via |-> "handler", stack |-> FALSE] @@ fields

\* variant: the smallest identifier no stored document has
NewObjectIdReused ==
  CHOOSE n \in 1..(Cardinality(DOMAIN tasks) + 1) :
    n \notin DOMAIN tasks /\ \A m \in 1..(n - 1) : m \in DOMAIN tasks

\* new ObjectId(): never one issued before
NewObjectId == nextId

\* variant: next() is called whatever the validation found
validateRequestUnchecked(schema, body, t) ==
  [next |-> TRUE, body |-> Validate(schema, body, t).value]

\* variant: req.body is left as it was received
validateRequestKeepsBody(schema, body, t) ==
  LET v == Validate(schema, body, t)
  IN IF Len(v.errors) > 0
       THEN [next |-> FALSE,
             res |-> [code |-> 400, status |-> "error", message |-> <<"Validation error">>,
                      errors |-> v.errors, via |-> "validateRequest", stack |-> FALSE]]
       ELSE [next |-> TRUE, body |-> body]

\* validateRequest(schema)(req, res, next) at time t
validateRequest(schema, body, t) ==
  LET v == Validate(schema, body, t)
  IN IF Len(v.errors) > 0
       THEN [next |-> FALSE,
             res |-> [code |-> 400, status |-> "error", message |-> <<"Validation error">>,
                      errors |-> v.errors, via |-> "validateRequest", stack |-> FALSE]]
       ELSE [next |-> TRUE, body |-> v.value]

\* ------------------------------------------------------------- POST /tasks
\* router.post('/', validateRequest(createTaskSchema), createTask), up to the
\* await on Task.create
RoutePost(c, raw) ==
  /\ Idle(c)
  /\ LET v == validateRequest(createTaskSchema, raw, now)
     IN /\ req' = [req EXCEPT ![c] = [method |-> "POST", raw |-> raw, at |-> now,
                                      body |-> IF v.next THEN v.body ELSE raw]]
        /\ IF v.next THEN Await(c) ELSE Answer(c, v.res)
  /\ prevList' = NoList
  /\ UNCHANGED <<tasks, nextId, now, nodeEnv, origin, deleted>>

\* Task.create(req.body) and the response
createTask(c) ==
  /\ phase[c] = "await" /\ req[c].method = "POST"
  /\ LET doc == CastDoc(req[c].body)
         errs == StoreValidate(doc, TRUE, now)
         id == NewObjectId
         stored == Stamp(doc, now, now)
     IN IF Len(errs) > 0
          THEN /\ Answer(c, errorHandler([name |-> "ValidationError", errors |-> errs], nodeEnv))
               /\ UNCHANGED <<tasks, origin, prevList>>
          ELSE /\ tasks' = (id :> stored) @@ tasks
               /\ origin' = (id :> req[c].raw) @@ origin
               /\ prevList' = NoList
               /\ Answer(c, Success(201, [task |-> ToJSON(id, stored)]))
  /\ nextId' = nextId + 1
  /\ UNCHANGED <<now, nodeEnv, req, deleted>>

\* -------------------------------------------------------------- GET /tasks
RouteGetAll(c, query) ==
  /\ Idle(c)
  /\ req' = [req EXCEPT ![c] = [method |-> "LIST", query |-> query]]
  /\ Await(c)
  /\ UNCHANGED <<tasks, nextId, now, nodeEnv, origin, deleted, prevList>>

getAllTasks(c) ==
  /\ phase[c] = "await" /\ req[c].method = "LIST"
  /\ LET query == req[c].query
         badCast == FilterCastErrors(QueryObj(query))
     IN IF badCast # {}
          THEN /\ LET k == CHOOSE k \in badCast : TRUE
                  IN Answer(c, errorHandler(CastError(k, query[k].v.txt), nodeEnv))
               /\ prevList' = NoList
        ELSE IF SkipOf(query) < 0
          THEN /\ Answer(c, errorHandler([name |-> "MongoServerError", code |-> 2,
                                          message |-> <<"Skip value must be non-negative">>],
                                         nodeEnv))
               /\ prevList' = NoList
        ELSE \E ids \in ListResults(query, tasks) :
               /\ Answer(c, Success(200,
                    [results |-> Len(ids),
                     tasks |-> [i \in 1..Len(ids) |->
                                  Project(ToJSON(ids[i], tasks[ids[i]]), query)]]))
               /\ prevList' = IF Has(query, "page") THEN [query |-> query, ids |-> ids]
                              ELSE NoList
  /\ UNCHANGED <<tasks, nextId, now, nodeEnv, req, origin, deleted>>

\* ---------------------------------------------------------- GET /tasks/:id
RouteGetOne(c, p) ==
  /\ Idle(c)
  /\ req' = [req EXCEPT ![c] = [method |-> "GET", id |-> p]]
  /\ Await(c)
  /\ prevList' = NoList
  /\ UNCHANGED <<tasks, nextId, now, nodeEnv, origin, deleted>>

getTaskById(c) ==
  /\ phase[c] = "await" /\ req[c].method = "GET"
  /\ LET p == req[c].id
     IN IF ~p.wf
          THEN Answer(c, errorHandler(CastError("_id", p.text), nodeEnv))
        ELSE IF p.n \notin DOMAIN tasks
          THEN Answer(c, errorHandler(AppError(<<"Task not found">>, 404), nodeEnv))
        ELSE Answer(c, Success(200, [task |-> ToJSON(p.n, tasks[p.n])]))
  /\ UNCHANGED <<tasks, nextId, now, nodeEnv, req, origin, deleted, prevList>>

\* ---------------------------------------------------------- PUT /tasks/:id
\* variant: the handler is reached without validation
RoutePutUnvalidated(c, p, raw) ==
  /\ Idle(c)
  /\ req' = [req EXCEPT ![c] = [method |-> "PUT", id |-> p, raw |-> raw, at |-> now,
                                   body |-> raw]]
  /\ Await(c)
  /\ prevList' = NoList
  /\ UNCHANGED <<tasks, nextId, now, nodeEnv, origin, deleted>>

RoutePut(c, p, raw) ==
  /\ Idle(c)
  /\ LET v == validateRequest(updateTaskSchema, raw, now)
     IN /\ req' = [req EXCEPT ![c] = [method |-> "PUT", id |-> p, raw |-> raw, at |-> now,
                                      body |-> IF v.next THEN v.body ELSE raw]]
        /\ IF v.next THEN Await(c) ELSE Answer(c, v.res)
  /\ prevList' = NoList
  /\ UNCHANGED <<tasks, nextId, now, nodeEnv, origin, deleted>>

\* variant: the update replaces the document
ApplyUpdateReplace(doc, upd, t) == Stamp(CastDoc(upd), doc.createdAt.t, t)

\* findByIdAndUpdate's $set of the paths of upd, with updatedAt refreshed
ApplyUpdate(doc, upd, t) == upd @@ [doc EXCEPT !.updatedAt = DateOf(t)]

\* variant: the update inserts the document when none has the identifier
updateTaskUpsert(c) ==
  /\ phase[c] = "await" /\ req[c].method = "PUT"
  /\ LET p == req[c].id
         upd == CastPaths(req[c].body)
         errs == StoreValidate(upd, FALSE, now)
     IN IF ~p.wf
          THEN /\ Answer(c, errorHandler(CastError("_id", p.text), nodeEnv))
               /\ UNCHANGED <<tasks, origin>>
        ELSE IF Len(errs) > 0
          THEN /\ Answer(c, errorHandler([name |-> "ValidationError", errors |-> errs], nodeEnv))
               /\ UNCHANGED <<tasks, origin>>
        ELSE LET new == IF p.n \in DOMAIN tasks THEN ApplyUpdate(tasks[p.n], upd, now)
                        ELSE Stamp(upd, now, now)
             IN /\ tasks' = (p.n :> new) @@ tasks
                /\ origin' = [i \in DOMAIN origin \ {p.n} |-> origin[i]]
                /\ Answer(c, Success(200, [task |-> ToJSON(p.n, new)]))
  /\ UNCHANGED <<nextId, now, nodeEnv, req, deleted, prevList>>

\* Task.findByIdAndUpdate(id, req.body, {new: true, runValidators: true})
updateTask(c) ==
  /\ phase[c] = "await" /\ req[c].method = "PUT"
  /\ LET p == req[c].id
         upd == CastPaths(req[c].body)
         errs == StoreValidate(upd, FALSE, now)
     IN IF ~p.wf
          THEN /\ Answer(c, errorHandler(CastError("_id", p.text), nodeEnv))
               /\ UNCHANGED <<tasks, origin>>
        ELSE IF Len(errs) > 0
          THEN /\ Answer(c, errorHandler([name |-> "ValidationError", errors |-> errs], nodeEnv))
               /\ UNCHANGED <<tasks, origin>>
        ELSE IF p.n \notin DOMAIN tasks
          THEN /\ Answer(c, errorHandler(AppError(<<"Task not found">>, 404), nodeEnv))
               /\ UNCHANGED <<tasks, origin>>
        ELSE LET new == ApplyUpdate(tasks[p.n], upd, now)
             IN /\ tasks' = [tasks EXCEPT ![p.n] = new]
                /\ origin' = [i \in DOMAIN origin \ {p.n} |-> origin[i]]
                /\ Answer(c, Success(200, [task |-> ToJSON(p.n, new)]))
  /\ UNCHANGED <<nextId, now, nodeEnv, req, deleted, prevList>>

\* ------------------------------------------------------- DELETE /tasks/:id
RouteDelete(c, p) ==
  /\ Idle(c)
  /\ req' = [req EXCEPT ![c] = [method |-> "DELETE", id |-> p]]
  /\ Await(c)
  /\ prevList' = NoList
  /\ UNCHANGED <<tasks, nextId, now, nodeEnv, origin, deleted>>

\* variant: the result of the delete is not looked at
deleteTaskBlind(c) ==
  /\ phase[c] = "await" /\ req[c].method = "DELETE"
  /\ LET p == req[c].id
     IN IF ~p.wf
          THEN /\ Answer(c, errorHandler(CastError("_id", p.text), nodeEnv))
               /\ UNCHANGED <<tasks, origin, deleted>>
        ELSE /\ tasks' = [i \in DOMAIN tasks \ {p.n} |-> tasks[i]]
             /\ origin' = [i \in DOMAIN origin \ {p.n} |-> origin[i]]
             /\ deleted' = deleted \cup (DOMAIN tasks \cap {p.n})
             /\ Answer(c, Success(204, <<>>))
  /\ UNCHANGED <<nextId, now, nodeEnv, req, prevList>>

\* variant: the delete is not restricted to the identifier
deleteTaskAll(c) ==
  /\ phase[c] = "await" /\ req[c].method = "DELETE"
  /\ LET p == req[c].id
     IN IF ~p.wf
          THEN /\ Answer(c, errorHandler(CastError("_id", p.text), nodeEnv))
               /\ UNCHANGED <<tasks, origin, deleted>>
        ELSE IF p.n \notin DOMAIN tasks
          THEN /\ Answer(c, errorHandler(AppError(<<"Task not found">>, 404), nodeEnv))
               /\ UNCHANGED <<tasks, origin, deleted>>
        ELSE /\ tasks' = <<>>
             /\ origin' = <<>>
             /\ deleted' = deleted \cup DOMAIN tasks
             /\ Answer(c, Success(204, <<>>))
  /\ UNCHANGED <<nextId, now, nodeEnv, req, prevList>>

\* Task.findByIdAndDelete(id)
deleteTask(c) ==
  /\ phase[c] = "await" /\ req[c].method = "DELETE"
  /\ LET p == req[c].id
     IN IF ~p.wf
          THEN /\ Answer(c, errorHandler(CastError("_id", p.text), nodeEnv))
               /\ UNCHANGED <<tasks, origin, deleted>>
        ELSE IF p.n \notin DOMAIN tasks
          THEN /\ Answer(c, errorHandler(AppError(<<"Task not found">>, 404), nodeEnv))
               /\ UNCHANGED <<tasks, origin, deleted>>
        ELSE /\ tasks' = [i \in DOMAIN tasks \ {p.n} |-> tasks[i]]
             /\ origin' = [i \in DOMAIN origin \ {p.n} |-> origin[i]]
             /\ deleted' = deleted \cup {p.n}
             /\ Answer(c, Success(204, <<>>))
  /\ UNCHANGED <<nextId, now, nodeEnv, req, prevList>>

\* ------------------------------------------------- body parser, other routes
\* express.json() rejects a body that is not JSON before any route runs
MalformedJson(c, method) ==
  /\ Idle(c)
  /\ req' = [req EXCEPT ![c] = [method |-> method, malformed |-> TRUE]]
  /\ Answer(c, errorHandler([name |-> "SyntaxError", status |-> 400, statusCode |-> 400,
                             body |-> "{invalid-json",
                             message |-> <<"Unexpected token i in JSON at position 1">>],
                            nodeEnv))
  /\ prevList' = NoList
  /\ UNCHANGED <<tasks, nextId, now, nodeEnv, origin, deleted>>

\* app.use(notFound); app.use(errorHandler)
NoRoute(c, url) ==
  /\ Idle(c)
  /\ req' = [req EXCEPT ![c] = [method |-> "GET", url |-> url]]
  /\ Answer(c, errorHandler(notFound(url), nodeEnv))
  /\ prevList' = NoList
  /\ UNCHANGED <<tasks, nextId, now, nodeEnv, origin, deleted>>

Tick ==
  /\ now < MaxTime
  /\ now' = now + 1
  /\ UNCHANGED <<tasks, nextId, nodeEnv, phase, req, resp, origin, deleted, prevList>>

\* ------------------------------------------------------------------ inputs
Late == MaxTime + 1

\* padded texts, a deadline in toISOString form, completed left out, one
\* unknown key
ValidA ==
  [title |-> Str(1, "Report", 6, 1), description |-> Str(0, "", 0, 1),
   category |-> Lit("Work"), priority |-> Lit("High"),
   deadline |-> Iso(Late, TRUE), _id |-> Num]
\* a deadline in another ISO form (a date only), completed as the string "true"
ValidB ==
  [title |-> Word("Report", 6), category |-> Str(1, "Personal", 8, 0),
   priority |-> Lit("Low"), deadline |-> Iso(1, FALSE), completed |-> Lit("true")]

CreateBodies ==
  { ValidA, ValidB,
    [category |-> Lit("Work"), priority |-> Lit("High"), deadline |-> Iso(Late, TRUE)],
    [ValidB EXCEPT !.priority = Word("Urgent", 6)],
    [ValidB EXCEPT !.title = Word("ab", 2), !.deadline = Word("tomorrow", 8)],
    [ValidB EXCEPT !.title = Word("Report", TitleMax + 1)],
    [ValidA EXCEPT !.deadline = Iso(0, FALSE)] }

\* update bodies whose only possible fault is the time of their deadline
TimedUpdates ==
  { [title |-> Str(1, "Second", 6, 0), completed |-> Bool(TRUE), deadline |-> Iso(1, FALSE),
     createdAt |-> Iso(0, TRUE)],
    [deadline |-> Iso(0, TRUE)] }

\* update bodies the schema rejects at any time
FaultyUpdates ==
  { <<>>, [priority |-> Word("Urgent", 6)], [_id |-> Num], [title |-> Str(1, "ab", 2, 1)] }

UpdateBodies == TimedUpdates \cup FaultyUpdates

\* the identifiers issued so far, the one the store would issue next, and a
\* text that is no identifier
IdParams == {Oid(n) : n \in 1..nextId} \cup {NotOid("invalid-id")}

Scalar(v) == [op |-> "eq", v |-> v]
Digits(n) == [num |-> TRUE, n |-> n]

Queries == { <<>>, [category |-> Scalar(Lit("Work"))] }

MainClients == {"c1"}

Next ==
  \/ \E c \in MainClients, raw \in CreateBodies :
       /\ nextId <= MaxIds
       /\ Cardinality(DOMAIN tasks) < MaxStored
       /\ RoutePost(c, raw)
  \/ \E c \in MainClients : createTask(c)
  \/ \E c \in MainClients, q \in Queries : RouteGetAll(c, q)
  \/ \E c \in MainClients : getAllTasks(c)
  \/ \E c \in MainClients, p \in IdParams : RouteGetOne(c, p)
  \/ \E c \in MainClients : getTaskById(c)
  \/ \E c \in MainClients, p \in IdParams, raw \in UpdateBodies :
       /\ raw \in FaultyUpdates => p \in {Oid(1), NotOid("invalid-id")}
       /\ (raw \in FaultyUpdates /\ DOMAIN raw \cap KeySet # {}) => p = Oid(1)
       /\ RoutePut(c, p, raw)
  \/ \E c \in MainClients : updateTask(c)
  \/ \E c \in MainClients, p \in IdParams : RouteDelete(c, p)
  \/ \E c \in MainClients : deleteTask(c)
  \/ \E c \in MainClients, m \in {"POST", "PUT"} : MalformedJson(c, m)
  \/ \E c \in MainClients : NoRoute(c, "/non-existent-route")
  \/ Tick

\* the test suite's environment (NODE_ENV = 'test')
InitTest == Init /\ nodeEnv = "test"

Spec == InitTest /\ [][Next]_vars

\* ----------------------------------------------------- a large collection
\* Creates of distinct deadlines (later tasks are due earlier) and lists, with
\* the clock at rest.
BulkBodies ==
  { [title |-> Word("Report", 6), category |-> Lit(kind[1]), priority |-> Lit(kind[2]),
     deadline |-> Iso(MaxBulk + 2 - nextId, TRUE)] :
       kind \in {<<"Work", "High">>, <<"Personal", "Low">>} }

BulkQueries ==
  { <<>>, [category |-> Scalar(Lit("Work"))], [priority |-> Scalar(Lit("Low"))] }

InitBulk == Init /\ nodeEnv = "production"

NextBulk ==
  \/ \E raw \in BulkBodies : nextId <= MaxBulk /\ RoutePost("c1", raw)
  \/ createTask("c1")
  \/ \E q \in BulkQueries : RouteGetAll("c1", q)
  \/ getAllTasks("c1")

SpecBulk == InitBulk /\ [][NextBulk]_vars

\* ------------------------------------------------------- pages of a list
\* Creates of distinct deadlines under one title and lists by page, with the
\* clock at rest.
ListBodies ==
  { [title |-> Word("Report", 6), category |-> Lit(cat), priority |-> Lit("High"),
     deadline |-> Iso(MaxListed + 2 - nextId, TRUE)] : cat \in {"Work", "Personal"} }

ByTitle == <<[neg |-> FALSE, field |-> "title"]>>

PageQueries ==
  { [page |-> Digits(p), limit |-> Digits(l)] : p \in 1..3, l \in 1..2 }
    \cup { [page |-> Digits(p), limit |-> Digits(1), sort |-> ByTitle] : p \in 1..2 }
    \cup { [page |-> Digits(p), limit |-> Digits(1), category |-> Scalar(Lit("Work"))] :
              p \in 1..2 }
    \cup { [limit |-> Digits(2)], [page |-> Digits(2)] }

NextList ==
  \/ \E raw \in ListBodies : nextId <= MaxListed /\ RoutePost("c1", raw)
  \/ createTask("c1")
  \/ \E q \in PageQueries : RouteGetAll("c1", q)
  \/ getAllTasks("c1")

SpecList == InitTest /\ [][NextList]_vars

\* ------------------------------------------------- shapes of a query string
\* req.query as the extended query parser builds it: key=value is a scalar,
\* key[$ne]=value an operator object
Operator(op, v) == [op |-> op, v |-> v]

ByCategoryThenLatest ==
  <<[neg |-> FALSE, field |-> "category"], [neg |-> TRUE, field |-> "deadline"]>>

ShapedQueries ==
  { <<>>,
    [category |-> Scalar(Lit("Work"))],
    [category |-> Operator("ne", Lit("Work"))],
    [category |-> Scalar(Lit("Personal")), sort |-> <<[neg |-> TRUE, field |-> "deadline"]>>,
     page |-> Digits(1), limit |-> Digits(2), fields |-> <<"title">>],
    [sort |-> ByCategoryThenLatest],
    [sort |-> <<[neg |-> TRUE, field |-> "deadline"]>>],
    [page |-> Digits(-1)], [page |-> Digits(0)],
    [limit |-> Digits(101)], [limit |-> Digits(-1)] }

NextQuery ==
  \/ \E raw \in ListBodies : nextId <= MaxListed /\ RoutePost("c1", raw)
  \/ createTask("c1")
  \/ \E q \in ShapedQueries : RouteGetAll("c1", q)
  \/ getAllTasks("c1")

SpecQuery == InitTest /\ [][NextQuery]_vars

\* ------------------------------------------------- several stored documents
\* Creates, updates and reads of tasks stored side by side, while the clock
\* runs.
NextPair ==
  \/ \E raw \in {ValidA, ValidB} : nextId <= MaxPair /\ RoutePost("c1", raw)
  \/ createTask("c1")
  \/ \E p \in IdParams, raw \in TimedUpdates : RoutePut("c1", p, raw)
  \/ updateTask("c1")
  \/ \E p \in IdParams : RouteGetOne("c1", p)
  \/ getTaskById("c1")
  \/ Tick

SpecPair == InitTest /\ [][NextPair]_vars

\* ------------------------------------------------------ concurrent requests
\* Two clients whose requests interleave: every PUT and DELETE arrives while
\* the task it names is stored, and the store runs the pending operations one
\* at a time, in any order.
NextRace ==
  \/ nextId <= MaxPair /\ RoutePost("c1", ValidA)
  \/ createTask("c1")
  \/ \E c \in Clients, n \in DOMAIN tasks, raw \in TimedUpdates : RoutePut(c, Oid(n), raw)
  \/ \E c \in Clients : updateTask(c)
  \/ \E c \in Clients, n \in DOMAIN tasks : RouteDelete(c, Oid(n))
  \/ \E c \in Clients : deleteTask(c)

SpecRace == InitTest /\ [][NextRace]_vars

\* ------------------------------------------------------ unclassified errors
\* the rejection of a store operation whose connection is lost
StoreError == [name |-> "MongoNetworkError", message |-> <<"connection lost">>]

\* the error express.json() raises for a body over its size limit
PayloadTooLargeError ==
  [name |-> "PayloadTooLargeError", status |-> 413, statusCode |-> 413,
   message |-> <<"request entity too large">>]

\* asyncHandler: the pending store operation of client c rejects, without
\* effect on the collection, and the error goes to errorHandler
StoreFails(c) ==
  /\ phase[c] = "await"
  /\ req' = [req EXCEPT ![c] = [failure |-> StoreError] @@ req[c]]
  /\ Answer(c, errorHandler(StoreError, nodeEnv))
  /\ nextId' = IF req[c].method = "POST" THEN nextId + 1 ELSE nextId
  /\ prevList' = NoList
  /\ UNCHANGED <<tasks, now, nodeEnv, origin, deleted>>

\* express.json() rejects a body over its size limit before any route runs
PayloadTooLarge(c, method) ==
  /\ Idle(c)
  /\ req' = [req EXCEPT ![c] = [method |-> method, failure |-> PayloadTooLargeError]]
  /\ Answer(c, errorHandler(PayloadTooLargeError, nodeEnv))
  /\ prevList' = NoList
  /\ UNCHANGED <<tasks, nextId, now, nodeEnv, origin, deleted>>

\* one body the create schema accepts, one it rejects
FailBodies == {ValidA, [ValidB EXCEPT !.priority = Word("Urgent", 6)]}

NextFail ==
  \/ \E raw \in FailBodies : nextId <= MaxPair /\ RoutePost("c1", raw)
  \/ createTask("c1")
  \/ \E p \in IdParams : RouteGetOne("c1", p)
  \/ getTaskById("c1")
  \/ \E p \in IdParams, raw \in TimedUpdates : RoutePut("c1", p, raw)
  \/ updateTask("c1")
  \/ \E p \in IdParams : RouteDelete("c1", p)
  \/ deleteTask("c1")
  \/ StoreFails("c1")
  \/ \E m \in {"POST", "PUT"} : PayloadTooLarge("c1", m)
  \/ NoRoute("c1", "/non-existent-route")

\* every NODE_ENV
SpecFail == Init /\ [][NextFail]_vars

\* the pending store operation of client c settles: it resolves and the
\* handler answers, or it rejects and asyncHandler passes the error on
Settles(c) ==
  createTask(c) \/ getTaskById(c) \/ updateTask(c) \/ deleteTask(c) \/ StoreFails(c)

\* a store operation that is pending does settle
SpecSettle == Init /\ [][NextFail]_vars /\ WF_vars(Settles("c1"))

\* ============================================================== properties
\* a step in which client c is answered
Answers(c) ==
  /\ phase'[c] = "done"
  /\ <<phase[c], req[c], resp[c]>> # <<phase'[c], req'[c], resp'[c]>>

\* a step that changes what client c has in flight
Moves(c) == <<phase[c], req[c], resp[c]>> # <<phase'[c], req'[c], resp'[c]>>

\* the schema of a POST or PUT request
SchemaOf(r) == IF r.method = "POST" THEN createTaskSchema ELSE updateTaskSchema

\* r is a POST or PUT whose JSON body fails its schema at the time it arrives
FailsSchema(r) ==
  /\ r.method \in {"POST", "PUT"}
  /\ Has(r, "raw")
  /\ Len(Validate(SchemaOf(r), r.raw, r.at).errors) > 0

\* the identifiers of the tasks a list response carries, in order
IdsOf(r) == [i \in 1..Len(r.tasks) |-> r.tasks[i]._id.n]
Returned(r) == {r.tasks[i]._id.n : i \in 1..Len(r.tasks)}

Min(a, b) == IF a < b THEN a ELSE b

\* ---------------------------------------------------------------------- C1
\* C1: a POST or PUT whose body fails its schema is answered 400 with status
\* "error", message "Validation error" and a non-empty errors list; it is
\* answered by the middleware in the step it arrives (the route handler is
\* never awaited) and the store is unchanged.
C1_ValidationRejects ==
  [][\A c \in Clients :
       (Moves(c) /\ FailsSchema(req'[c])) =>
         /\ phase'[c] = "done"
         /\ resp'[c].code = 400
         /\ resp'[c].status = "error"
         /\ resp'[c].message = <<"Validation error">>
         /\ Has(resp'[c], "errors") /\ Len(resp'[c].errors) > 0
         /\ tasks' = tasks /\ nextId' = nextId]_vars

\* a PUT with a failing body answered 400 while a task is stored
C1_Witness ==
  \E c \in Clients :
    /\ phase[c] = "done" /\ req[c].method = "PUT" /\ FailsSchema(req[c])
    /\ resp[c].code = 400 /\ Len(resp[c].errors) > 0
    /\ DOMAIN tasks # {}

\* ---------------------------------------------------------------------- C2
\* C2: once a DELETE of an identifier has been answered 204, every later GET
\* of that identifier is answered 404 "Task not found": no stored document
\* ever carries an identifier that was deleted.
C2_DeletedStaysGone ==
  [][/\ deleted' \cap DOMAIN tasks' = {}
     /\ \A c \in Clients :
          (/\ Answers(c) /\ req'[c].method = "GET" /\ Has(req'[c], "id")
           /\ req'[c].id.wf /\ req'[c].id.n \in deleted) =>
            /\ resp'[c].code = 404
            /\ resp'[c].message = <<"Task not found">>]_vars

\* a GET of a deleted identifier answered 404 after another task was created
C2_Witness ==
  \E c \in Clients :
    /\ phase[c] = "done" /\ req[c].method = "GET" /\ Has(req[c], "id")
    /\ req[c].id.wf /\ req[c].id.n \in deleted
    /\ resp[c].code = 404
    /\ DOMAIN tasks # {}

\* ---------------------------------------------------------------------- C3
\* a submitted text with its surrounding whitespace removed
Trimmed(v) == Str(0, v.txt, v.n, 0)

TextFields == {"title", "description", "category", "priority"}

\* the text fields of a returned task are the submitted ones, trimmed
TextsRoundTrip(raw, json) ==
  \A k \in TextFields :
    IF Has(raw, k) THEN Has(json, k) /\ json[k] = Trimmed(raw[k]) ELSE ~Has(json, k)

\* the returned task equals the submitted body after trimming and the default
\* of completed
RoundTripEqual(raw, json) ==
  /\ TextsRoundTrip(raw, json)
  /\ json.deadline = raw.deadline
  /\ json.completed = IF Has(raw, "completed") THEN raw.completed ELSE Bool(FALSE)

\* the returned task carries the submitted instant in toISOString form and the
\* boolean the submitted completed converts to
RoundTripConverted(raw, json) ==
  /\ TextsRoundTrip(raw, json)
  /\ json.deadline = Iso(raw.deadline.t, TRUE)
  /\ json.completed =
       IF ~Has(raw, "completed") THEN Bool(FALSE)
       ELSE IF raw.completed.ty = "bool" THEN raw.completed
       ELSE Bool(raw.completed.txt = "true")

\* client c is answered a GET of a task that is as it was created
GetsCreated(c) ==
  /\ Answers(c) /\ req'[c].method = "GET" /\ Has(req'[c], "id")
  /\ req'[c].id.wf /\ req'[c].id.n \in DOMAIN origin

\* C3 as stated: a GET of a task created with a valid body returns title,
\* description, category, priority, deadline and completed equal to the
\* submitted values after trimming and the default completed = false.
C3_RoundTripAsSubmitted ==
  [][\A c \in Clients :
       GetsCreated(c) =>
         /\ resp'[c].code = 200
         /\ RoundTripEqual(origin[req'[c].id.n], resp'[c].task)]_vars

\* C3, amended: a GET of a task created with a valid body returns the text
\* fields equal to the trimmed submitted values, deadline as the toISOString
\* text of the submitted instant, and completed as the boolean the submitted
\* value converts to (false when omitted).
C3_RoundTrip ==
  [][\A c \in Clients :
       GetsCreated(c) =>
         /\ resp'[c].code = 200
         /\ RoundTripConverted(origin[req'[c].id.n], resp'[c].task)]_vars

\* a GET answered 200 for a task created from padded texts
C3_Witness ==
  \E c \in Clients :
    /\ phase[c] = "done" /\ req[c].method = "GET" /\ Has(req[c], "id")
    /\ req[c].id.wf /\ req[c].id.n \in DOMAIN origin
    /\ origin[req[c].id.n] = ValidA
    /\ resp[c].code = 200 /\ resp[c].task.title = Word("Report", 6)

\* ---------------------------------------------------------------------- C4
\* C4: a PUT with a valid body is answered 400 (never 404) when the
\* identifier is malformed, and 404 with status "fail" and message "Task not
\* found" when the identifier is well formed but absent; the store is
\* unchanged in both cases.
C4_PutUnknownId ==
  [][\A c \in Clients :
       (Answers(c) /\ phase[c] = "await" /\ req[c].method = "PUT") =>
         /\ ~req[c].id.wf => (resp'[c].code = 400 /\ tasks' = tasks)
         /\ (req[c].id.wf /\ req[c].id.n \notin DOMAIN tasks) =>
              /\ resp'[c].code = 404
              /\ resp'[c].status = "fail"
              /\ resp'[c].message = <<"Task not found">>
              /\ tasks' = tasks]_vars

\* a valid PUT on a malformed identifier answered 400 while a task is stored
C4_Witness ==
  \E c \in Clients :
    /\ phase[c] = "done" /\ req[c].method = "PUT" /\ Has(req[c], "raw")
    /\ ~FailsSchema(req[c]) /\ ~req[c].id.wf
    /\ resp[c].code = 400 /\ resp[c].status = "fail"
    /\ DOMAIN tasks # {}

\* ---------------------------------------------------------------------- C5
\* client c holds an error response
ErrorResponse(c) == phase[c] = "done" /\ resp[c].code >= 400

\* the response was written by the validation middleware, for a body that is
\* not JSON, or for a route that does not exist
ByMiddleware(c) ==
  \/ resp[c].via \in {"validateRequest", "invalidJson"}
  \/ Has(req[c], "url")

\* C5 as stated: every error response has status "fail" when its code is 4xx
\* and "error" otherwise.
C5_StatusByCode ==
  \A c \in Clients :
    ErrorResponse(c) =>
      resp[c].status = IF resp[c].code \in 400..499 THEN "fail" ELSE "error"

\* C5, amended: an error response built from an AppError (a handler's 404, a
\* translated identifier or store validation error) has a 4xx code and status
\* "fail"; the validation middleware's 400, the malformed-JSON 400 and the
\* unmatched-route 404 have status "error".
C5_StatusBySource ==
  \A c \in Clients :
    ErrorResponse(c) =>
      /\ resp[c].code \in 400..499
      /\ resp[c].status = IF ByMiddleware(c) THEN "error" ELSE "fail"

\* an unmatched route answered 404 with status "error"
C5_Witness ==
  \E c \in Clients :
    /\ ErrorResponse(c) /\ Has(req[c], "url")
    /\ resp[c].code = 404 /\ resp[c].status = "error"

\* ---------------------------------------------------------------------- C6
\* r is a PUT whose body names a deadline earlier than the time the request
\* arrives and has no other fault
PastDeadlineUpdate(r) ==
  /\ r.method = "PUT" /\ Has(r, "raw")
  /\ Has(r.raw, "deadline") /\ r.raw.deadline.ty = "iso"
  /\ r.raw.deadline.t < r.at
  /\ LET errs == Validate(updateTaskSchema, r.raw, r.at).errors
     IN \A i \in 1..Len(errs) : errs[i].field = "deadline"

StaleDeadlineCreate(r) ==
  /\ r.method = "POST" /\ Has(r, "raw")
  /\ Has(r.raw, "deadline") /\ r.raw.deadline.ty = "iso"
  /\ r.raw.deadline.t <= r.at

\* C7: every POST whose deadline is at or before the current time, the
\* deadline equal to the validation time included, is answered 400 with an
\* errors entry whose field is "deadline", and nothing is persisted.
C7_StaleDeadlineRejected ==
  [][\A c \in Clients :
       (Answers(c) /\ StaleDeadlineCreate(req'[c])) =>
         /\ resp'[c].code = 400
         /\ Has(resp'[c], "errors")
         /\ \E i \in 1..Len(resp'[c].errors) : resp'[c].errors[i].field = "deadline"
         /\ tasks' = tasks]_vars

\* ---------------------------------------------------------------------- C8
\* client c holds the answer to a list request with the query q
Listed(c, q) == phase[c] = "done" /\ req[c].method = "LIST" /\ req[c].query = q

AscendingByDeadline(ts) ==
  \A i, j \in 1..Len(ts) : i < j => ts[i].deadline.t <= ts[j].deadline.t

\* C8 as stated: GET /tasks without parameters returns all the stored tasks,
\* whatever their number, in ascending deadline order, with results equal to
\* the number stored.
C8_ListsAll ==
  \A c \in Clients :
    Listed(c, <<>>) =>
      /\ resp[c].code = 200
      /\ resp[c].results = Cardinality(DOMAIN tasks)
      /\ Returned(resp[c]) = DOMAIN tasks
      /\ AscendingByDeadline(resp[c].tasks)

\* C8, amended: GET /tasks without parameters returns the min(n, 10) tasks of
\* earliest deadline out of the n stored, in ascending deadline order, with
\* results equal to min(n, 10).
C8_ListsFirstTen ==
  \A c \in Clients :
    Listed(c, <<>>) =>
      /\ resp[c].code = 200
      /\ resp[c].results = Min(Cardinality(DOMAIN tasks), 10)
      /\ Len(resp[c].tasks) = resp[c].results
      /\ Cardinality(Returned(resp[c])) = resp[c].results
      /\ Returned(resp[c]) \subseteq DOMAIN tasks
      /\ \A i \in 1..Len(resp[c].tasks) :
           resp[c].tasks[i] = ToJSON(IdsOf(resp[c])[i], tasks[IdsOf(resp[c])[i]])
      /\ AscendingByDeadline(resp[c].tasks)
      /\ \A i \in Returned(resp[c]), j \in DOMAIN tasks \ Returned(resp[c]) :
           tasks[i].deadline.t <= tasks[j].deadline.t

\* a list of eleven stored tasks answered with ten
C8_Witness ==
  \E c \in Clients :
    /\ Listed(c, <<>>) /\ resp[c].code = 200
    /\ Cardinality(DOMAIN tasks) = 11
    /\ resp[c].results = 10

\* ---------------------------------------------------------------------- C9
\* the single-filter queries: category=Work and priority=Low
FilterCases == {<<"category", "Work">>, <<"priority", "Low">>}
FilterQuery(f) == f[1] :> Scalar(Lit(f[2]))

\* the stored tasks whose field f[1] equals f[2]
Matching(f) == {i \in DOMAIN tasks : tasks[i][f[1]] = Lit(f[2])}

\* C9 as stated: GET /tasks with the single filter category=C (or priority=P)
\* and no pagination returns exactly the stored tasks whose category
\* (priority) equals the value, with results equal to their number.
C9_FilterExact ==
  \A c \in Clients, f \in FilterCases :
    Listed(c, FilterQuery(f)) =>
      /\ resp[c].code = 200
      /\ Returned(resp[c]) = Matching(f)
      /\ resp[c].results = Cardinality(Matching(f))

\* C9, amended: the response holds only stored tasks whose category
\* (priority) equals the value: all of them when at most 10 match, and the 10
\* of earliest deadline when more match; results is the number returned.
C9_FilterFirstTen ==
  \A c \in Clients, f \in FilterCases :
    Listed(c, FilterQuery(f)) =>
      /\ resp[c].code = 200
      /\ Returned(resp[c]) \subseteq Matching(f)
      /\ resp[c].results = Min(Cardinality(Matching(f)), 10)
      /\ Len(resp[c].tasks) = resp[c].results
      /\ Cardinality(Returned(resp[c])) = resp[c].results
      /\ \A i \in Returned(resp[c]), j \in Matching(f) \ Returned(resp[c]) :
           tasks[i].deadline.t <= tasks[j].deadline.t

\* a category filter answered with the matching tasks out of a mixed store
C9_Witness ==
  \E c \in Clients :
    /\ Listed(c, FilterQuery(<<"category", "Work">>)) /\ resp[c].code = 200
    /\ Cardinality(Matching(<<"category", "Work">>)) >= 2
    /\ Cardinality(DOMAIN tasks \ Matching(<<"category", "Work">>)) >= 2
    /\ Returned(resp[c]) = Matching(<<"category", "Work">>)

\* --------------------------------------------------------------------- C10
\* q2 asks for the page after the one q1 asked for, of the same list
NextPageOf(q1, q2) ==
  /\ QueryObj(q1) = QueryObj(q2)
  /\ SortOf(q1) = SortOf(q2)
  /\ LimitOf(q1) = LimitOf(q2)
  /\ PageOf(q2) = PageOf(q1) + 1

\* C10: with page p >= 1 and limit l >= 1 the response holds exactly the
\* elements at places (p-1)*l .. p*l-1 of the filtered, sorted sequence, never
\* more than l of them, and consecutive pages partition that sequence without
\* overlap or gap while the store does not change.
C10_PagesPartition ==
  [][\A c \in Clients :
       (/\ Answers(c) /\ req[c].method = "LIST" /\ resp'[c].code = 200
        /\ PageOf(req[c].query) >= 1 /\ LimitOf(req[c].query) >= 1) =>
         LET q == req[c].query
             hits == {i \in DOMAIN tasks : Matches(tasks[i], QueryObj(q))}
         IN /\ Len(resp'[c].tasks) <= LimitOf(q)
            /\ \E s \in SortedOrders(hits, tasks, SortOf(q), Cardinality(hits)) :
                 /\ IdsOf(resp'[c]) = Page(s, SkipOf(q), LimitOf(q))
                 /\ (Has(prevList, "query") /\ NextPageOf(prevList.query, q)) =>
                      prevList.ids = Page(s, SkipOf(prevList.query), LimitOf(q))]_vars

\* --------------------------------------------------------------------- C11
\* r is a PUT whose body has none of the six fields of the update schema
ZeroFieldUpdate(r) ==
  /\ r.method = "PUT" /\ Has(r, "raw")
  /\ DOMAIN r.raw \cap {"title", "description", "category", "priority",
                        "deadline", "completed"} = {}

\* C11: a PUT whose body has no recognised field is answered 400 "Validation
\* error" with status "error", in the step it arrives and with the store
\* unchanged, whether its id is malformed, absent or that of a stored task.
C11_EmptyUpdateRejected ==
  [][\A c \in Clients :
       (Moves(c) /\ ZeroFieldUpdate(req'[c])) =>
         /\ phase'[c] = "done"
         /\ resp'[c].code = 400
         /\ resp'[c].status = "error"
         /\ resp'[c].message = <<"Validation error">>
         /\ tasks' = tasks]_vars

\* a PUT of unknown keys only on a malformed id answered by the validation
C11_Witness ==
  \E c \in Clients :
    /\ phase[c] = "done" /\ ZeroFieldUpdate(req[c])
    /\ DOMAIN req[c].raw # {} /\ ~req[c].id.wf
    /\ resp[c].code = 400 /\ resp[c].message = <<"Validation error">>

\* --------------------------------------------------------------------- C12
\* a text is part of a message
Contains(message, text) == \E i \in 1..Len(message) : message[i] = text

\* the JSON task is the stored document doc under the identifier n
SameTask(json, n, doc) ==
  /\ json._id.n = n
  /\ DOMAIN json = DOMAIN doc \cup {"_id"}
  /\ \A k \in DOMAIN doc :
       IF doc[k].ty = "Date" THEN json[k].ty = "iso" /\ json[k].t = doc[k].t
       ELSE json[k] = doc[k]

\* C12: GET /tasks/:id is answered by the id alone: a malformed id gets 400,
\* status "fail" and a message containing "Invalid"; a well-formed id of no
\* stored task gets 404, status "fail", "Task not found"; the id of a stored
\* task gets 200, status "success" and that task.
C12_GetByIdOutcomes ==
  [][\A c \in Clients :
       (/\ Answers(c) /\ phase[c] = "await"
        /\ req[c].method = "GET" /\ Has(req[c], "id")) =>
         LET p == req[c].id  r == resp'[c]
         IN IF ~p.wf
              THEN r.code = 400 /\ r.status = "fail" /\ Contains(r.message, "Invalid ")
            ELSE IF p.n \notin DOMAIN tasks
              THEN r.code = 404 /\ r.status = "fail" /\ r.message = <<"Task not found">>
            ELSE /\ r.code = 200 /\ r.status = "success"
                 /\ SameTask(r.task, p.n, tasks[p.n])]_vars

\* a GET on a malformed id answered 400 "fail" while a task is stored
C12_Witness ==
  \E c \in Clients :
    /\ phase[c] = "done" /\ req[c].method = "GET" /\ Has(req[c], "id")
    /\ ~req[c].id.wf
    /\ resp[c].code = 400 /\ resp[c].status = "fail"
    /\ DOMAIN tasks # {}

\* --------------------------------------------------------------------- C13
\* client c is answered a POST that passed the create schema and whose
\* deadline the store accepts
CreateAccepted(c) ==
  /\ Answers(c) /\ phase[c] = "await" /\ req[c].method = "POST"
  /\ req[c].raw.deadline.t > now

\* the response is 201 "success" with a task of a new identifier and both
\* timestamps, and that task alone is added to the store
CreatedOne(c) ==
  LET r == resp'[c] IN
  /\ r.code = 201 /\ r.status = "success"
  /\ r.task._id.n \notin 1..(nextId - 1)
  /\ Has(r.task, "createdAt") /\ Has(r.task, "updatedAt")
  /\ DOMAIN tasks' = DOMAIN tasks \cup {r.task._id.n}
  /\ r.task._id.n \notin DOMAIN tasks
  /\ \A i \in DOMAIN tasks : tasks'[i] = tasks[i]
  /\ SameTask(r.task, r.task._id.n, tasks'[r.task._id.n])

\* C13 as stated: a create the schema and the store accept is answered 201
\* "success" with data.task holding every submitted business field equal to
\* its trimmed submitted value, completed = false when omitted, an id never
\* issued before and both timestamps; exactly one task is added.
C13_CreateEchoesSubmitted ==
  [][\A c \in Clients :
       CreateAccepted(c) =>
         CreatedOne(c) /\ RoundTripEqual(req[c].raw, resp'[c].task)]_vars

\* C13, amended: as stated, except that deadline is returned as the
\* toISOString text of the submitted instant and completed as the boolean the
\* submitted value converts to.
C13_CreateReturnsTask ==
  [][\A c \in Clients :
       CreateAccepted(c) =>
         CreatedOne(c) /\ RoundTripConverted(req[c].raw, resp'[c].task)]_vars

\* a second task created from padded texts next to a stored one
C13_Witness ==
  \E c \in Clients :
    /\ phase[c] = "done" /\ req[c].method = "POST" /\ resp[c].code = 201
    /\ req[c].raw = ValidA
    /\ Cardinality(DOMAIN tasks) = 2
    /\ resp[c].task._id.n = 2

\* --------------------------------------------------------------------- C14
\* the fields of the body of r that violate their rule: present with a value
\* the rule rejects, or required and missing
Violations(r) ==
  {k \in KeySet :
     IF Has(r.raw, k) THEN CheckKey(SchemaOf(r).keys[k], r.raw[k], r.at).code # "ok"
     ELSE Has(SchemaOf(r).keys[k], "required")}

\* C14: validation does not stop at the first violation: the errors list of
\* the 400 response has an entry for each field that violates its rule.
C14_AllViolationsReported ==
  \A c \in Clients :
    (phase[c] = "done" /\ FailsSchema(req[c])) =>
      \A k \in Violations(req[c]) :
        \E i \in 1..Len(resp[c].errors) : resp[c].errors[i].field = k

\* a body with two violating fields answered with an entry for each
C14_Witness ==
  \E c \in Clients :
    /\ phase[c] = "done" /\ FailsSchema(req[c])
    /\ Violations(req[c]) = {"title", "deadline"}
    /\ Len(resp[c].errors) = 2

\* --------------------------------------------------------------------- C15
BusinessFields == {"title", "description", "category", "priority", "deadline", "completed"}

\* C15: the body a POST or PUT handler reads has none but the six business
\* fields; a stored task keeps its id and createdAt, a task that changes gets
\* the clock as updatedAt, and a new task gets the store's next id and the
\* clock as createdAt and updatedAt, whatever the request body held.
C15_StoreOwnsIdAndTimestamps ==
  [][/\ \A c \in Clients :
          (phase'[c] = "await" /\ req'[c].method \in {"POST", "PUT"}) =>
            DOMAIN req'[c].body \subseteq BusinessFields
     /\ \A c \in Clients :
          (Answers(c) /\ req[c].method = "PUT" /\ resp'[c].code = 200) =>
            resp'[c].task._id.n = req[c].id.n
     /\ \A i \in DOMAIN tasks \cap DOMAIN tasks' :
          /\ tasks'[i].createdAt = tasks[i].createdAt
          /\ tasks'[i] # tasks[i] => tasks'[i].updatedAt = DateOf(now)
     /\ \A i \in DOMAIN tasks' \ DOMAIN tasks :
          /\ i = nextId
          /\ tasks'[i].createdAt = DateOf(now)
          /\ tasks'[i].updatedAt = DateOf(now)]_vars

\* an update whose body named another createdAt, answered 200
C15_Witness ==
  \E c \in Clients :
    /\ phase[c] = "done" /\ req[c].method = "PUT" /\ resp[c].code = 200
    /\ Has(req[c].raw, "createdAt")
    /\ tasks[req[c].id.n].createdAt.t # req[c].raw.createdAt.t

\* --------------------------------------------------------------------- C16
\* C16: every stored task has a category among Work, Personal, Study, Health,
\* Other, a priority among Low, Medium, High, a title without surrounding
\* whitespace of 3 to 100 characters and a description of at most 500.
C16_StoredTasksWellFormed ==
  \A i \in DOMAIN tasks :
    LET d == tasks[i] IN
    /\ d.category.pre = 0 /\ d.category.post = 0
    /\ d.category.txt \in {"Work", "Personal", "Study", "Health", "Other"}
    /\ d.priority.pre = 0 /\ d.priority.post = 0
    /\ d.priority.txt \in {"Low", "Medium", "High"}
    /\ d.title.pre = 0 /\ d.title.post = 0
    /\ d.title.n >= 3 /\ d.title.n <= 100
    /\ Has(d, "description") => d.description.pre + d.description.n + d.description.post <= 500

\* a task stored from padded texts and then given a new title by an update
C16_Witness ==
  \E i \in DOMAIN tasks :
    /\ tasks[i].title = Word("Second", 6)
    /\ Has(tasks[i], "description")

\* --------------------------------------------------------------------- C17
\* C17: a PUT answered 200 sets exactly the business fields of the sanitized
\* payload to the payload's values, leaves the task's other business fields,
\* its id and createdAt and every other task unchanged, and answers with the
\* task as it is after the update.
C17_UpdateFrame ==
  [][\A c \in Clients :
       (Answers(c) /\ req[c].method = "PUT" /\ resp'[c].code = 200) =>
         LET n == req[c].id.n
             body == req[c].body
         IN /\ DOMAIN tasks' = DOMAIN tasks
            /\ \A k \in BusinessFields :
                 IF Has(body, k) THEN Has(tasks'[n], k) /\ tasks'[n][k] = body[k]
                 ELSE IF Has(tasks[n], k) THEN Has(tasks'[n], k) /\ tasks'[n][k] = tasks[n][k]
                 ELSE ~Has(tasks'[n], k)
            /\ tasks'[n].createdAt = tasks[n].createdAt
            /\ \A i \in DOMAIN tasks \ {n} : tasks'[i] = tasks[i]
            /\ SameTask(resp'[c].task, n, tasks'[n])]_vars

\* an update of one of two stored tasks that changes its title and keeps its
\* category
C17_Witness ==
  \E c \in Clients :
    /\ phase[c] = "done" /\ req[c].method = "PUT" /\ resp[c].code = 200
    /\ Cardinality(DOMAIN tasks) = 2
    /\ tasks[req[c].id.n].title = Word("Second", 6)
    /\ tasks[req[c].id.n].category = Lit("Personal")

\* --------------------------------------------------------------------- C18
\* C18: a request to a path that matches no route is answered 404 with
\* status "error" and a message containing "Not Found"; the store is
\* unchanged.
C18_UnmatchedRoute ==
  [][\A c \in Clients :
       (Moves(c) /\ Has(req'[c], "url")) =>
         /\ phase'[c] = "done"
         /\ resp'[c].code = 404
         /\ resp'[c].status = "error"
         /\ Contains(resp'[c].message, "Not Found - ")
         /\ tasks' = tasks]_vars

\* an unmatched route answered 404 while a task is stored
C18_Witness ==
  \E c \in Clients :
    /\ phase[c] = "done" /\ Has(req[c], "url")
    /\ resp[c].code = 404 /\ Contains(resp[c].message, "/non-existent-route")
    /\ DOMAIN tasks # {}

\* --------------------------------------------------------------------- C19
\* C19: a request whose body is not well-formed JSON is answered 400 with
\* status "error" and a message containing "Invalid JSON", in the step it
\* arrives: no validation response, no handler, and the store is unchanged.
C19_MalformedJson ==
  [][\A c \in Clients :
       (Moves(c) /\ Has(req'[c], "malformed")) =>
         /\ phase'[c] = "done"
         /\ resp'[c].code = 400
         /\ Contains(resp'[c].message, "Invalid JSON: ")
         /\ resp'[c].status = "error"
         /\ ~Has(resp'[c], "errors")
         /\ tasks' = tasks /\ nextId' = nextId]_vars

\* a PUT with a malformed body answered 400 while a task is stored
C19_Witness ==
  \E c \in Clients :
    /\ phase[c] = "done" /\ Has(req[c], "malformed") /\ req[c].method = "PUT"
    /\ resp[c].code = 400 /\ resp[c].via = "invalidJson"
    /\ DOMAIN tasks # {}

\* --------------------------------------------------------------------- C20
\* client c holds the answer to an error that is no CastError, store
\* ValidationError, duplicate key, malformed JSON or operational error
Unclassified(c) == phase[c] = "done" /\ (Has(req[c], "failure") \/ Has(req[c], "url"))

\* that error
ErrorOf(c) == IF Has(req[c], "failure") THEN req[c].failure ELSE notFound(req[c].url)

\* C20 as stated: an unclassified error is answered 500 with a generic
\* message, whatever its own message and status fields are.
C20_GenericFiveHundred ==
  \A c \in Clients :
    Unclassified(c) =>
      /\ resp[c].code = 500
      /\ resp[c].message = <<"Something went wrong">>

\* C20, amended: an unclassified error is answered with its own statusCode
\* (500 when it has none), its own status field as the body's status
\* ("error" when it has none) and its own message ("Something went wrong"
\* when it has none).
C20_OwnFieldsOrDefaults ==
  \A c \in Clients :
    Unclassified(c) =>
      LET e == ErrorOf(c) IN
      /\ resp[c].code = IF Has(e, "statusCode") THEN e.statusCode ELSE 500
      /\ resp[c].status = IF Has(e, "status") THEN e.status ELSE "error"
      /\ resp[c].message = IF Has(e, "message") THEN e.message
                           ELSE <<"Something went wrong">>

\* a failed store operation answered 500 with the store's own message
C20_Witness ==
  \E c \in Clients :
    /\ Unclassified(c) /\ Has(req[c], "failure") /\ req[c].method = "GET"
    /\ resp[c].code = 500 /\ resp[c].message = <<"connection lost">>
    /\ DOMAIN tasks # {}

\* --------------------------------------------------------------------- C21
\* C21: a response carries a stack only if it was built by handleError while
\* NODE_ENV is 'development'; in production (and in every other mode) no
\* response carries one.
C21_StackOnlyInDevelopment ==
  \A c \in Clients :
    (phase[c] = "done" /\ resp[c].stack) =>
      (nodeEnv = "development" /\ nodeEnv # "production" /\ resp[c].via = "handleError")

\* a malformed identifier answered through handleError in development, with
\* the stack of the error made for it
C21_Witness ==
  \E c \in Clients :
    /\ phase[c] = "done" /\ nodeEnv = "development"
    /\ req[c].method = "GET" /\ Has(req[c], "id") /\ ~req[c].id.wf
    /\ resp[c].code = 400 /\ resp[c].via = "handleError" /\ resp[c].stack

\* --------------------------------------------------------------------- C22
\* the parameters GET /tasks reserves
Reserved == {"page", "sort", "limit", "fields"}

\* C22: every task a list returns has, for each query parameter k that is not
\* reserved, its field k equal to the value supplied, whatever the shape of
\* that value (a scalar, or a nested object such as k[$ne]=v, which no text
\* field equals); no reserved parameter is a filter key.
C22_ExactMatchAnyShape ==
  \A c \in Clients :
    (phase[c] = "done" /\ req[c].method = "LIST" /\ resp[c].code = 200) =>
      /\ DOMAIN QueryObj(req[c].query) \cap Reserved = {}
      /\ \A n \in Returned(resp[c]) :
           \A k \in DOMAIN req[c].query \ Reserved :
             /\ req[c].query[k].op = "eq"
             /\ Has(tasks[n], k)
             /\ tasks[n][k] = req[c].query[k].v

\* --------------------------------------------------------------------- C23
\* the order a request asks for: its sort list, or the deadline ascending
RequestedOrder(q) ==
  IF Has(q, "sort") THEN q.sort ELSE <<[neg |-> FALSE, field |-> "deadline"]>>

\* doc1 may stand before doc2: at the first listed field on which they differ,
\* doc1 is the smaller (the larger when the field is prefixed with '-')
RECURSIVE NotAfter(_, _, _)
NotAfter(doc1, doc2, by) ==
  IF Len(by) = 0 THEN TRUE
  ELSE LET c == Compare(doc1, doc2, by[1].field)
       IN IF c = 0 THEN NotAfter(doc1, doc2, Tail(by))
          ELSE IF by[1].neg THEN c > 0 ELSE c < 0

\* a list request for which neither page nor limit cuts anything off
Uncut(q) == ~Has(q, "page") /\ ~Has(q, "limit") /\ Cardinality(DOMAIN tasks) <= DefaultLimit

\* C23: the tasks of a 200 list response stand in the lexicographic order of
\* the fields of sort, each ascending unless prefixed with '-', and in
\* ascending order of deadline when sort is absent; when nothing is cut off
\* they are all the tasks the filter selects.
C23_SortedAsRequested ==
  [][\A c \in Clients :
       (Answers(c) /\ phase[c] = "await" /\ req[c].method = "LIST" /\ resp'[c].code = 200) =>
         LET ids == IdsOf(resp'[c])
             q == req[c].query
         IN /\ \A i, j \in 1..Len(ids) :
                 i < j => NotAfter(tasks[ids[i]], tasks[ids[j]], RequestedOrder(q))
            /\ Uncut(q) =>
                 Returned(resp'[c]) = {n \in DOMAIN tasks : Matches(tasks[n], QueryObj(q))}]_vars

\* three tasks listed by category, then by deadline descending: two of them
\* share a category and the later deadline comes first
C23_Witness ==
  \E c \in Clients :
    /\ Listed(c, [sort |-> ByCategoryThenLatest]) /\ resp[c].code = 200
    /\ Len(resp[c].tasks) = 3
    /\ \E i \in 1..2 :
         /\ resp[c].tasks[i].category = resp[c].tasks[i + 1].category
         /\ resp[c].tasks[i].deadline.t > resp[c].tasks[i + 1].deadline.t
    /\ \E i \in 1..2 : resp[c].tasks[i].category # resp[c].tasks[i + 1].category

\* --------------------------------------------------------------------- C24
\* the most tasks the documented range of limit allows on one page
LimitMax == 100

\* C24: whatever integers a list request sends as page and limit, the page
\* applied is at least 1 and the limit applied is between 1 and 100, so the
\* skip handed to the store is not negative, the request is answered 200 and
\* the response holds at most 100 tasks.
C24_PageAndLimitClamped ==
  \A c \in Clients :
    (phase[c] = "done" /\ req[c].method = "LIST") =>
      /\ PageOf(req[c].query) >= 1
      /\ LimitOf(req[c].query) \in 1..LimitMax
      /\ SkipOf(req[c].query) >= 0
      /\ resp[c].code = 200
      /\ resp[c].results <= LimitMax

\* --------------------------------------------------------------------- C25
\* C25: every request gets exactly one response and is then finished.  A
\* request forwarded to its handler has no response yet; the step that answers
\* a pending request sends one response and finishes it; a finished request
\* gets no other response; a store failure is answered with an error, once,
\* and the operation is not tried again; and every pending request is
\* eventually answered.
C25_ExactlyOneResponse ==
  /\ [][\A c \in Clients :
          /\ phase'[c] = "await" => resp'[c] = NoResp
          /\ phase'[c] = "done" => resp'[c] # NoResp
          /\ (phase[c] = "await" /\ Moves(c)) =>
               (phase'[c] = "done" /\ req'[c].method = req[c].method)
          /\ (phase[c] = "done" /\ phase'[c] = "done" /\ req'[c] = req[c]) =>
               resp'[c] = resp[c]
          /\ (phase[c] = "await" /\ Has(req'[c], "failure")) =>
               (resp'[c].code >= 400 /\ tasks' = tasks)]_vars
  /\ \A c \in Clients : (phase[c] = "await") ~> (phase[c] = "done")

\* a DELETE whose store operation failed: answered once, with an error, and
\* finished
C25_Witness ==
  \E c \in Clients :
    /\ phase[c] = "done" /\ req[c].method = "DELETE" /\ Has(req[c], "failure")
    /\ resp[c].code = 500

\* --------------------------------------------------------------------- C26
\* the tasks stored before the step are stored after it, as they were
OthersKept(except) ==
  \A i \in DOMAIN tasks \ except : i \in DOMAIN tasks' /\ tasks'[i] = tasks[i]

NotFoundAnswer(r) ==
  r.code = 404 /\ r.status = "fail" /\ r.message = <<"Task not found">>

\* c and d have both finished a DELETE of the same identifier
BothDeleted(c, d) ==
  /\ c # d /\ phase[c] = "done" /\ phase[d] = "done"
  /\ req[c].method = "DELETE" /\ req[d].method = "DELETE"
  /\ req[c].id = req[d].id

\* C27: of two DELETEs of one stored task that are pending together, whichever
\* order the store runs them in, exactly one is answered 204 and the other 404
\* "Task not found"; a delete that finds the identifier not stored is answered
\* 404 and changes nothing.
C27_OneDeleteWins ==
  /\ [](\A c, d \in Clients :
          BothDeleted(c, d) =>
            \/ resp[c].code = 204 /\ NotFoundAnswer(resp[d])
            \/ resp[d].code = 204 /\ NotFoundAnswer(resp[c]))
  /\ [][\A c \in Clients :
          (Answers(c) /\ phase[c] = "await" /\ req[c].method = "DELETE"
             /\ req[c].id.n \notin DOMAIN tasks) =>
            (NotFoundAnswer(resp'[c]) /\ tasks' = tasks)]_vars

\* both clients have deleted the same task: one was answered 204, the other 404
C27_Witness ==
  \E c, d \in Clients :
    BothDeleted(c, d) /\ resp[c].code = 204 /\ resp[d].code = 404

\* --------------------------------------------------------------------- C28
\* c has finished a PUT and d a DELETE of the same identifier
PutAndDelete(c, d) ==
  /\ c # d /\ phase[c] = "done" /\ phase[d] = "done"
  /\ req[c].method = "PUT" /\ req[d].method = "DELETE"
  /\ req[c].id = req[d].id

\* C28: of a PUT and a DELETE of one stored task that are pending together,
\* once both have finished the task is not stored and the DELETE was answered
\* 204; the PUT is answered 200 if the store ran it before the delete and 404
\* "Task not found" if it ran after, and it never stores the task again.
C28_DeleteWinsOverUpdate ==
  /\ [](\A c, d \in Clients :
          PutAndDelete(c, d) =>
            /\ req[c].id.n \notin DOMAIN tasks
            /\ resp[d].code = 204
            /\ resp[c].code = 200 \/ NotFoundAnswer(resp[c]))
  /\ [][\A c \in Clients :
          (Answers(c) /\ phase[c] = "await" /\ req[c].method = "PUT") =>
            /\ resp'[c].code = 200 <=> req[c].id.n \notin deleted
            /\ req[c].id.n \in deleted =>
                 (NotFoundAnswer(resp'[c]) /\ req[c].id.n \notin DOMAIN tasks')]_vars

\* the delete ran while the PUT was pending: the PUT was answered 404
C28_Witness ==
  \E c, d \in Clients :
    PutAndDelete(c, d) /\ resp[d].code = 204 /\ resp[c].code = 404

\* --------------------------------------------------------------------- C29
\* the create pending for r passed the schema, and its deadline is not later
\* than the clock t at which the store validates it
OverdueAtStore(r, t) ==
  /\ r.method = "POST" /\ Has(r, "raw") /\ ~FailsSchema(r)
  /\ r.body.deadline.t <= t

====
